---- MODULE Spec2Model ----
(***************************************************************************)
(* MinHash / LSH-banding / exact-Jaccard pipeline of ADM_FP.               *)
(*                                                                         *)
(*   src/project/src/minhash.py   compute_minhash_signatures               *)
(*   src/project/src/lsh.py       lsh_candidate_pairs                      *)
(*   src/project/src/jaccard.py   jaccard_similarity_csr,                  *)
(*                                verify_candidates_and_write              *)
(*   src/project/main.py          main (the three stages in sequence)      *)
(*                                                                         *)
(* Python containers are 0-based; they are modelled as functions with      *)
(* domain 0..n-1 so that indices read as in the source.  Floats that the   *)
(* program compares (jacc >= threshold) are modelled as exact rationals    *)
(* <<numerator, denominator>>: intersection/union of small integers and a  *)
(* short decimal threshold are ordered by their doubles exactly as the     *)
(* rationals are.                                                          *)
(***************************************************************************)
EXTENDS Integers, Sequences, FiniteSets, TLC

VARIABLES
    R,            \* the csr_matrix: [indptr, indices, shape]
    args,         \* seed, num_hashes, rows_per_band, max_bucket_size, threshold, close_each_write
    setOrder,     \* the order in which the interpreter iterates the candidate set built last
    pc,           \* position of the driver
    signatures,   \* result of compute_minhash_signatures
    candidates,   \* result of lsh_candidate_pairs
    todo,         \* what the iteration over the candidates has still to yield
    out0,         \* content of the output file when the run started
    out,          \* content of the output file: a sequence of lines
    f,            \* the handle of verify_candidates_and_write: "None", "open", "closed"
    buf,          \* lines written to the handle f that have not reached the file
    idx,          \* number of candidates the loop has taken
    num_written,  \* counter of verify_candidates_and_write
    last,         \* the candidate the loop body handled last, and what it did
    err,          \* the exception that ended the run, or "none"
    run,          \* 1 for the first run, 2 for the repeated one
    prev          \* results of the first run

vars == <<R, args, setOrder, pc, signatures, candidates, todo, out0, out, f, buf,
          idx, num_written, last, err, run, prev>>

(***************************************************************************)
(* Bounds of the model.                                                    *)
(***************************************************************************)
NRows == 3          \* rows of the incidence matrix in a pipeline run
NCols == 2          \* columns of the incidence matrix in a pipeline run
VerifyRows == 2     \* rows of the matrix handed to verify_candidates_and_write alone
VerifyCols == 3     \* its columns
MaxCands == 2       \* pairs an arbitrary candidate iterable yields
MaxSeed == 1        \* seeds 0..MaxSeed
MaxHashes == 2      \* num_hashes up to MaxHashes
MaxBucket == 2      \* max_bucket_size 1..MaxBucket, besides the driver's own value
LshRows == 3        \* rows of a signature matrix handed to lsh_candidate_pairs alone

(***************************************************************************)
(* Program constants.                                                      *)
(***************************************************************************)
p == 2000003                 \* minhash.py: the prime of the affine hash family
MainMaxBucketSize == 500     \* main.py: max_bucket_size passed by the driver

(***************************************************************************)
(* Generic helpers: 0-based arrays.                                        *)
(***************************************************************************)
Len0(a) == Cardinality(DOMAIN a)

Arr0(s) == [k \in 0..(Len(s) - 1) |-> s[k + 1]]

Min2(x, y) == IF x <= y THEN x ELSE y

\* The strictly increasing sequence of the elements of a finite set of integers.
RECURSIVE SortedSeq(_)
SortedSeq(S) ==
    IF S = {} THEN <<>>
    ELSE LET m == CHOOSE x \in S : \A y \in S : x <= y
         IN <<m>> \o SortedSeq(S \ {m})

RECURSIVE Concat(_)
Concat(ss) == IF ss = <<>> THEN <<>> ELSE Head(ss) \o Concat(Tail(ss))

RECURSIVE PrefixLens(_, _)
PrefixLens(ss, acc) ==
    IF ss = <<>> THEN <<acc>>
    ELSE <<acc>> \o PrefixLens(Tail(ss), acc + Len(Head(ss)))

\* The CSR arrays of a matrix whose rows hold the given sorted column lists
\* (build_user_movie_matrix: scipy sums duplicates and sorts each row).
build_user_movie_matrix(rows, n_cols) ==
    [indptr  |-> Arr0(PrefixLens(rows, 0)),
     indices |-> Arr0(Concat(rows)),
     shape   |-> <<Len(rows), n_cols>>]

\* numpy's a[k] for a Python int k: negative k counts from the end,
\* anything outside -len..len-1 raises IndexError.
NpInRange(a, k) == -Len0(a) <= k /\ k < Len0(a)

NpGet(a, k) == IF k < 0 THEN a[k + Len0(a)] ELSE a[k]

\* numpy's a[start:end] for 0 <= start, end <= len: empty when start >= end.
NpSlice(a, start, end) ==
    IF start >= end THEN <<>>
    ELSE [k \in 1..(end - start) |-> a[start + k - 1]]

\* No signature matrix yet.
NoSig == [shape |-> <<0, 0>>, data |-> <<>>, computed |-> FALSE]

(***************************************************************************)
(* Rationals <<n, d>> with d > 0, for the floats the program compares.     *)
(***************************************************************************)
RatGeq(x, y) == x[1] * y[2] >= y[1] * x[2]

(***************************************************************************)
(* jaccard.py                                                              *)
(***************************************************************************)
\* The while loop of jaccard_similarity_csr: the number of common entries of
\* two sorted arrays, by a two-pointer merge started at positions i, j.
RECURSIVE two_pointer(_, _, _, _, _)
two_pointer(cols1, cols2, i, j, intersection) ==
    IF i < Len(cols1) /\ j < Len(cols2)
    THEN LET c1 == cols1[i + 1]
             c2 == cols2[j + 1]
         IN IF c1 = c2 THEN two_pointer(cols1, cols2, i + 1, j + 1, intersection + 1)
            ELSE IF c1 < c2 THEN two_pointer(cols1, cols2, i + 1, j, intersection)
            ELSE two_pointer(cols1, cols2, i, j + 1, intersection)
    ELSE intersection

\* Variant: the common entries counted twice.
union_size_bad(len1, len2, intersection) == len1 + len2

\* union_size = len1 + len2 - intersection
union_size(len1, len2, intersection) == len1 + len2 - intersection

\* jaccard_similarity_csr(R, u1, u2): [raised, value].  The row bounds are read
\* with indptr[u] and indptr[u + 1]; numpy raises IndexError only outside
\* -len(indptr)..len(indptr)-1 and counts a negative index from the end.
jaccard_similarity_csr(Rm, a1, a2) ==
    IF a1 = a2 THEN [raised |-> "none", value |-> <<1, 1>>]
    ELSE
    LET u1 == IF a1 > a2 THEN a2 ELSE a1
        u2 == IF a1 > a2 THEN a1 ELSE a2
        indptr == Rm.indptr
        indices == Rm.indices
    IN  IF ~(NpInRange(indptr, u1) /\ NpInRange(indptr, u1 + 1)
             /\ NpInRange(indptr, u2) /\ NpInRange(indptr, u2 + 1))
        THEN [raised |-> "IndexError", value |-> <<0, 1>>]
        ELSE
        LET cols1 == NpSlice(indices, NpGet(indptr, u1), NpGet(indptr, u1 + 1))
            cols2 == NpSlice(indices, NpGet(indptr, u2), NpGet(indptr, u2 + 1))
            len1 == Len(cols1)
            len2 == Len(cols2)
            intersection == two_pointer(cols1, cols2, 0, 0, 0)
            union == union_size(len1, len2, intersection)
        IN  IF intersection = 0 THEN [raised |-> "none", value |-> <<0, 1>>]
            ELSE IF union = 0 THEN [raised |-> "none", value |-> <<0, 1>>]
            ELSE [raised |-> "none", value |-> <<intersection, union>>]

\* str(n) of a Python int, as the sequence of its characters.
Digit(d) == CASE d = 0 -> "0" [] d = 1 -> "1" [] d = 2 -> "2" [] d = 3 -> "3"
              [] d = 4 -> "4" [] d = 5 -> "5" [] d = 6 -> "6" [] d = 7 -> "7"
              [] d = 8 -> "8" [] OTHER -> "9"

RECURSIVE FormatNat(_)
FormatNat(n) == IF n < 10 THEN <<Digit(n)>>
                ELSE FormatNat(n \div 10) \o <<Digit(n % 10)>>

FormatInt(n) == IF n < 0 THEN <<"-">> \o FormatNat(-n) ELSE FormatNat(n)

\* Variant: the 0-based index written as it is.
uid_of_bad(u) == u

\* uid = u + 1: back to the 1-based identifier.
uid_of(u) == u + 1

\* Variant: jacc > threshold.
accepts_bad(jacc, threshold) == ~RatGeq(threshold, jacc)

\* jacc >= threshold
accepts(jacc, threshold) == RatGeq(jacc, threshold)

\* The line written for an accepted pair: f"{uid1},{uid2}\n", smaller uid first.
format_line(u1, u2) ==
    LET a == uid_of(u1)
        b == uid_of(u2)
        uid1 == IF a > b THEN b ELSE a
        uid2 == IF a > b THEN a ELSE b
    IN FormatInt(uid1) \o <<",">> \o FormatInt(uid2) \o <<"\n">>

NoLast == [valid |-> FALSE, u1 |-> 0, u2 |-> 0, raised |-> "none",
           jacc |-> <<0, 1>>, wrote |-> FALSE]

Perms(S) == {s \in [1..Cardinality(S) -> S] : \A x \in S : \E k \in DOMAIN s : s[k] = x}

\* The orders in which iterating the set S may yield its elements.  Python
\* leaves the order of a set open; the interpreter fixes it by the hashes of
\* the elements and the insertions made, so a set built the same way again
\* is iterated in the order seen before, and any order may be seen first.
SetIter(S) ==
    IF Len(setOrder) = Cardinality(S) /\ \A k \in 1..Len(setOrder) : setOrder[k] \in S
    THEN {setOrder}
    ELSE Perms(S)

\* Lines 79-86 of verify_candidates_and_write: the counter, the handle, and the
\* iterator over the candidates.
VerifyEnter ==
    /\ pc = "call_verify"
    /\ num_written' = 0
    /\ idx' = 0
    /\ f' = IF args.close_each_write THEN "None" ELSE "open"
    /\ buf' = <<>>
    /\ \E order \in SetIter(candidates) :
          /\ todo' = order
          /\ setOrder' = order
    /\ pc' = "verify_loop"
    /\ UNCHANGED <<R, args, signatures, candidates, out0, out, last, err, run, prev>>

\* Variant: buffering = 1 taken as a buffer size, as for a binary file.
line_buffering_bad(buffering) == FALSE

\* open(output_path, "a", buffering=...): buffering = 1 selects line buffering,
\* the default (-1) block buffering.
line_buffering(buffering) == buffering = 1

\* write(line) on a text handle holding the lines `pending`: what goes to the
\* file now and what the handle holds afterwards.  A line-buffered handle
\* flushes whenever the text written contains a newline; a block-buffered one
\* holds a short line back.
text_write(pending, line, buffering) ==
    IF line_buffering(buffering) /\ \E k \in 1..Len(line) : line[k] = "\n"
    THEN [file |-> pending \o <<line>>, pending |-> <<>>]
    ELSE [file |-> <<>>, pending |-> pending \o <<line>>]

\* Lines 97-99: with open(output_path, "a") as f_out: f_out.write(line).  The
\* file is opened for appending with the default buffering, and leaving the
\* with block closes it, which flushes what the handle holds.
append_reopen(file, line) ==
    LET w == text_write(<<>>, line, -1)
    IN file \o w.file \o w.pending

\* One pass of the for loop (lines 86-106) for the pair (u1, u2).  An exception
\* of jaccard_similarity_csr leaves the function: nothing is written for the
\* pair and the handle is not closed.
VerifyBody(u1, u2) ==
    LET res == jaccard_similarity_csr(R, u1, u2)
    IN  IF res.raised # "none"
        THEN /\ pc' = "error"
             /\ err' = res.raised
             /\ last' = [valid |-> TRUE, u1 |-> u1, u2 |-> u2, raised |-> res.raised,
                         jacc |-> res.value, wrote |-> FALSE]
             /\ UNCHANGED <<out, buf, num_written, idx>>
        ELSE LET ok == accepts(res.value, args.threshold)
                 line == format_line(u1, u2)
                 w == text_write(buf, line, 1)
             IN /\ out' = IF ~ok THEN out
                          ELSE IF args.close_each_write THEN append_reopen(out, line)
                          ELSE out \o w.file
                /\ buf' = IF ok /\ ~args.close_each_write THEN w.pending ELSE buf
                /\ num_written' = IF ok THEN num_written + 1 ELSE num_written
                /\ idx' = idx + 1
                /\ last' = [valid |-> TRUE, u1 |-> u1, u2 |-> u2, raised |-> "none",
                            jacc |-> res.value, wrote |-> ok]
                /\ UNCHANGED <<pc, err>>

\* The loop over the candidate set of the pipeline.
VerifyIter ==
    /\ pc = "verify_loop"
    /\ todo # <<>>
    /\ VerifyBody(Head(todo)[1], Head(todo)[2])
    /\ todo' = Tail(todo)
    /\ UNCHANGED <<R, args, setOrder, signatures, candidates, out0, f, run, prev>>

\* The indices an arbitrary candidate may name: every row, and on either side
\* the indices that numpy wraps and the first ones it rejects.
AnyIndex == (-(VerifyRows + 2))..VerifyRows

\* The loop over an arbitrary iterable of pairs, which yields up to MaxCands.
VerifyIterAny ==
    /\ pc = "verify_loop"
    /\ idx < MaxCands
    /\ \E u1 \in AnyIndex, u2 \in AnyIndex : VerifyBody(u1, u2)
    /\ UNCHANGED <<R, args, setOrder, signatures, candidates, todo, out0, f, run, prev>>

\* Lines 108-114: the iterable is exhausted; close the handle, which flushes
\* what it holds, and return num_written.
VerifyReturn ==
    /\ pc = "verify_loop"
    /\ todo = <<>>
    /\ f' = IF f = "open" THEN "closed" ELSE f
    /\ out' = IF f = "open" THEN out \o buf ELSE out
    /\ buf' = <<>>
    /\ pc' = "done"
    /\ UNCHANGED <<R, args, setOrder, signatures, candidates, todo, out0, idx,
                   num_written, last, err, run, prev>>

(***************************************************************************)
(* minhash.py                                                              *)
(***************************************************************************)
\* Variant: a generator whose state carries over from one run to the next.
BitGenerator_bad(seed, k) == (seed + run) * 999983 + k * (1999993 + 7 * run)

\* np.random.default_rng(seed): the k-th word the generator yields.  PCG64 is
\* not modelled bit by bit; it is a fixed function of the seed and the
\* position, which is all the program relies on.
BitGenerator(seed, k) == (seed + 1) * 999983 + k * (1999993 + 7 * seed)

\* rng.integers(low, high): a value of [low, high) from one word of the stream.
integers(low, high, word) == low + (word % (high - low))

\* generate_hash_functions: a[i] in [1, p-1] from the first num_hashes words,
\* b[i] in [0, p-1] from the next num_hashes words.
generate_hash_functions(num_hashes, seed) ==
    [a |-> [i \in 0..(num_hashes - 1) |-> integers(1, p, BitGenerator(seed, i))],
     b |-> [i \in 0..(num_hashes - 1) |->
                integers(0, p, BitGenerator(seed, num_hashes + i))]]

\* Variant: the hash of the first active column.
seq_min_bad(s) == s[1]

\* user_hashes.min(axis=1) for one hash function: the least entry of a
\* non-empty sequence.
RECURSIVE seq_min(_)
seq_min(s) == IF Len(s) = 1 THEN s[1] ELSE Min2(s[1], seq_min(Tail(s)))

\* The value given to every entry of a row without active columns.
sentinel(prime) == prime + 1

\* compute_minhash_signatures(R, num_hashes, seed): [raised, signatures].
\* A negative num_hashes makes rng.integers(size=num_hashes) raise ValueError;
\* num_hashes = 0 yields an n_users x 0 matrix.  The cast to int32 keeps every
\* value: all are at most p + 1.
compute_minhash_signatures(Rm, num_hashes, seed) ==
    IF num_hashes < 0 THEN [raised |-> "ValueError", signatures |-> NoSig]
    ELSE
    LET n_users == Rm.shape[1]
        n_movies == Rm.shape[2]
        hf == generate_hash_functions(num_hashes, seed)
        h_vals == [i \in 0..(num_hashes - 1) |->
                     [m \in 0..(n_movies - 1) |-> (hf.a[i] * m + hf.b[i]) % p]]
        row(u) ==
            LET user_movies == NpSlice(Rm.indices, Rm.indptr[u], Rm.indptr[u + 1])
            IN [i \in 0..(num_hashes - 1) |->
                  IF Len(user_movies) = 0 THEN sentinel(p)
                  ELSE seq_min([k \in 1..Len(user_movies) |-> h_vals[i][user_movies[k]]])]
    IN [raised |-> "none",
        signatures |-> [shape |-> <<n_users, num_hashes>>,
                        data |-> [u \in 0..(n_users - 1) |-> row(u)],
                        computed |-> TRUE]]

(***************************************************************************)
(* lsh.py                                                                  *)
(***************************************************************************)
\* The four little-endian bytes of an int32.
int32_bytes(v) ==
    <<v % 256, (v \div 256) % 256, (v \div 65536) % 256, (v \div 16777216) % 256>>

\* _band_key_to_bytes: np.asarray(band, dtype=np.int32).tobytes()
band_key_to_bytes(band) == Concat([k \in 1..Len(band) |-> int32_bytes(band[k])])

\* buckets[bucket_key].append(u), creating the list first when the key is new.
\* The dict is a sequence of [key, users] in insertion order.
bucket_append(buckets, bucket_key, u) ==
    IF \E k \in 1..Len(buckets) : buckets[k].key = bucket_key
    THEN [k \in 1..Len(buckets) |->
            IF buckets[k].key = bucket_key
            THEN [key |-> bucket_key, users |-> Append(buckets[k].users, u)]
            ELSE buckets[k]]
    ELSE Append(buckets, [key |-> bucket_key, users |-> <<u>>])

\* The two nested loops that fill the buckets, from (band_idx, u) on.
RECURSIVE build_buckets(_, _, _, _, _, _)
build_buckets(sig, rows_per_band, num_bands, band_idx, u, buckets) ==
    IF band_idx >= num_bands THEN buckets
    ELSE IF u >= sig.shape[1]
    THEN build_buckets(sig, rows_per_band, num_bands, band_idx + 1, 0, buckets)
    ELSE LET start == band_idx * rows_per_band
             end == start + rows_per_band
             band == NpSlice(sig.data[u], start, end)
             bucket_key == <<band_idx, band_key_to_bytes(band)>>
         IN build_buckets(sig, rows_per_band, num_bands, band_idx, u + 1,
                          bucket_append(buckets, bucket_key, u))

\* Variant: a bucket of exactly max_bucket_size users is skipped too.
bucket_skipped_bad(k, max_bucket_size) == k < 2 \/ k >= max_bucket_size

\* Variant: no cutoff.
bucket_skipped_nocut(k, max_bucket_size) == k < 2

\* A bucket yields no pairs when it has fewer than two users or more than
\* max_bucket_size.
bucket_skipped(k, max_bucket_size) == k < 2 \/ k > max_bucket_size

\* The double loop over one bucket: every (i, j) with i < j, smaller row first.
bucket_pairs(users) ==
    {IF users[ij[1]] < users[ij[2]] THEN <<users[ij[1]], users[ij[2]]>>
                                     ELSE <<users[ij[2]], users[ij[1]]>> :
        ij \in {x \in (1..Len(users)) \X (1..Len(users)) : x[1] < x[2]}}

\* lsh_candidate_pairs(signatures, rows_per_band, max_bucket_size):
\* [raised, candidates, buckets].
lsh_candidate_pairs(sig, rows_per_band, max_bucket_size) ==
    LET num_hashes == sig.shape[2]
    IN  IF rows_per_band <= 0
        THEN [raised |-> "ValueError", candidates |-> {}, buckets |-> <<>>]
        ELSE
        LET num_bands == num_hashes \div rows_per_band
        IN  IF num_bands = 0
            THEN [raised |-> "ValueError", candidates |-> {}, buckets |-> <<>>]
            ELSE
            LET buckets == build_buckets(sig, rows_per_band, num_bands, 0, 0, <<>>)
            IN [raised |-> "none",
                candidates |->
                    UNION {bucket_pairs(buckets[k].users) :
                             k \in {x \in 1..Len(buckets) :
                                      ~bucket_skipped(Len(buckets[x].users),
                                                      max_bucket_size)}},
                buckets |-> buckets]

(***************************************************************************)
(* Inputs.                                                                 *)
(***************************************************************************)
\* Rows of an incidence matrix: strictly increasing column lists.
RowsOver(n_cols) == {SortedSeq(S) : S \in SUBSET (0..(n_cols - 1))}

Matrices(n_rows, n_cols) ==
    {build_user_movie_matrix(rows, n_cols) : rows \in [1..n_rows -> RowsOver(n_cols)]}

\* threshold of verify_candidates_and_write: values of [0, 1] and its two ends.
Thresholds == {<<0, 1>>, <<3, 10>>, <<1, 2>>, <<1, 1>>}

\* --threshold of the driver: any float parses, so also one on either side of [0, 1].
MainThresholds == {<<-1, 2>>, <<1, 2>>, <<3, 2>>}

\* The output file before the run: absent or empty, or holding an earlier line.
OldFiles == {<<>>, <<format_line(7, 8)>>}

NoPrev == [signatures |-> NoSig, candidates |-> {}, out |-> <<>>, pc |-> "none"]

(***************************************************************************)
(* verify_candidates_and_write called on its own, with any matrix, any      *)
(* iterable of index pairs, any threshold and either way of writing.        *)
(***************************************************************************)
InitVerify ==
    /\ R \in Matrices(VerifyRows, VerifyCols)
    /\ \E t \in Thresholds, c \in BOOLEAN :
          args = [seed |-> 0, num_hashes |-> 1, rows_per_band |-> 1,
                  max_bucket_size |-> 1, threshold |-> t, close_each_write |-> c]
    /\ setOrder = <<>>
    /\ pc = "call_verify"
    /\ signatures = NoSig
    /\ candidates = {}
    /\ todo = <<>>
    /\ out0 \in OldFiles
    /\ out = out0
    /\ f = "None"
    /\ buf = <<>>
    /\ idx = 0
    /\ num_written = 0
    /\ last = NoLast
    /\ err = "none"
    /\ run = 1
    /\ prev = NoPrev

NextVerify == VerifyEnter \/ VerifyIterAny \/ VerifyReturn

SpecVerify == InitVerify /\ [][NextVerify]_vars

(***************************************************************************)
(* verify_candidates_and_write called on a collection of index pairs, and   *)
(* then once more on the same matrix, collection, threshold and file        *)
(* content with the other value of close_each_write.                        *)
(***************************************************************************)
\* The indices a pair of the collection may name: every row, one index that
\* numpy wraps and one it rejects.
SinkIndex == (-1)..VerifyRows

CandidateSets ==
    {S \in SUBSET (SinkIndex \X SinkIndex) : Cardinality(S) <= MaxCands}

OtherMode ==
    /\ run = 1
    /\ pc \in {"done", "error"}
    /\ prev' = [signatures |-> signatures, candidates |-> candidates,
                out |-> out, pc |-> pc]
    /\ run' = 2
    /\ args' = [args EXCEPT !.close_each_write = ~args.close_each_write]
    /\ pc' = "call_verify"
    /\ todo' = <<>>
    /\ out' = out0
    /\ f' = "None"
    /\ buf' = <<>>
    /\ idx' = 0
    /\ num_written' = 0
    /\ last' = NoLast
    /\ err' = "none"
    /\ UNCHANGED <<R, setOrder, signatures, candidates, out0>>

InitSink ==
    /\ R \in Matrices(VerifyRows, VerifyCols)
    /\ \E t \in Thresholds :
          args = [seed |-> 0, num_hashes |-> 1, rows_per_band |-> 1,
                  max_bucket_size |-> 1, threshold |-> t, close_each_write |-> TRUE]
    /\ setOrder = <<>>
    /\ pc = "call_verify"
    /\ signatures = NoSig
    /\ candidates \in CandidateSets
    /\ todo = <<>>
    /\ out0 \in OldFiles
    /\ out = out0
    /\ f = "None"
    /\ buf = <<>>
    /\ idx = 0
    /\ num_written = 0
    /\ last = NoLast
    /\ err = "none"
    /\ run = 1
    /\ prev = NoPrev

NextSink == VerifyEnter \/ VerifyIter \/ VerifyReturn \/ OtherMode

SpecSink == InitSink /\ [][NextSink]_vars

(***************************************************************************)
(* lsh_candidate_pairs called on its own, with any signature matrix.        *)
(***************************************************************************)
\* Entries of a signature matrix: 0 and 256 differ in their second byte only.
SigVals == {0, 256}

SigMatrices(n_rows) ==
    UNION {{[shape |-> <<n_rows, h>>, data |-> d, computed |-> TRUE] :
               d \in [0..(n_rows - 1) -> [0..(h - 1) -> SigVals]]} : h \in 0..MaxHashes}

\* max_bucket_size: a small cutoff, or the one the driver passes.
MaxBucketSizes == {MaxBucket, MainMaxBucketSize}

\* The call of lsh_candidate_pairs and what the caller does with its result.
LshStep(nextpc) ==
    LET res == lsh_candidate_pairs(signatures, args.rows_per_band, args.max_bucket_size)
    IN  IF res.raised # "none"
        THEN /\ pc' = "error"
             /\ err' = res.raised
             /\ UNCHANGED candidates
        ELSE /\ pc' = nextpc
             /\ candidates' = res.candidates
             /\ UNCHANGED err

LshCall ==
    /\ pc = "lsh_alone"
    /\ LshStep("done")
    /\ UNCHANGED <<R, args, setOrder, signatures, todo, out0, out, f, buf, idx,
                   num_written, last, run, prev>>

InitLsh ==
    /\ R = build_user_movie_matrix(<<>>, 0)
    /\ signatures \in SigMatrices(LshRows)
    /\ \E r \in 0..(MaxHashes + 1), mb \in MaxBucketSizes :
          args = [seed |-> 0, num_hashes |-> signatures.shape[2], rows_per_band |-> r,
                  max_bucket_size |-> mb, threshold |-> <<1, 2>>,
                  close_each_write |-> TRUE]
    /\ setOrder = <<>>
    /\ pc = "lsh_alone"
    /\ candidates = {}
    /\ todo = <<>>
    /\ out0 = <<>>
    /\ out = out0
    /\ f = "None"
    /\ buf = <<>>
    /\ idx = 0
    /\ num_written = 0
    /\ last = NoLast
    /\ err = "none"
    /\ run = 1
    /\ prev = NoPrev

NextLsh == LshCall

SpecLsh == InitLsh /\ [][NextLsh]_vars

(***************************************************************************)
(* main.py, from the call of compute_minhash_signatures on: the three       *)
(* stages in sequence on the matrix R, and the same run once more.          *)
(***************************************************************************)
MainMinhash ==
    /\ pc = "start"
    /\ LET res == compute_minhash_signatures(R, args.num_hashes, args.seed)
       IN IF res.raised # "none"
          THEN /\ pc' = "error"
               /\ err' = res.raised
               /\ UNCHANGED signatures
          ELSE /\ pc' = "call_lsh"
               /\ signatures' = res.signatures
               /\ UNCHANGED err
    /\ UNCHANGED <<R, args, setOrder, candidates, todo, out0, out, f, buf, idx,
                   num_written, last, run, prev>>

MainLsh ==
    /\ pc = "call_lsh"
    /\ LshStep("call_verify")
    /\ UNCHANGED <<R, args, setOrder, signatures, todo, out0, out, f, buf, idx,
                   num_written, last, run, prev>>

\* The same command once more: same matrix, same arguments, the output file
\* as it was before the first run.
Rerun ==
    /\ run = 1
    /\ pc \in {"done", "error"}
    /\ prev' = [signatures |-> signatures, candidates |-> candidates,
                out |-> out, pc |-> pc]
    /\ run' = 2
    /\ pc' = "start"
    /\ signatures' = NoSig
    /\ candidates' = {}
    /\ todo' = <<>>
    /\ out' = out0
    /\ f' = "None"
    /\ buf' = <<>>
    /\ idx' = 0
    /\ num_written' = 0
    /\ last' = NoLast
    /\ err' = "none"
    /\ UNCHANGED <<R, args, setOrder, out0>>

Init ==
    /\ R \in Matrices(NRows, NCols)
    /\ \E s \in 0..MaxSeed, h \in (-1)..MaxHashes, r \in 0..MaxHashes,
          mb \in MaxBucketSizes, t \in MainThresholds :
          args = [seed |-> s, num_hashes |-> h, rows_per_band |-> r,
                  max_bucket_size |-> mb, threshold |-> t,
                  close_each_write |-> TRUE]
    /\ setOrder = <<>>
    /\ pc = "start"
    /\ signatures = NoSig
    /\ candidates = {}
    /\ todo = <<>>
    /\ out0 \in OldFiles
    /\ out = out0
    /\ f = "None"
    /\ buf = <<>>
    /\ idx = 0
    /\ num_written = 0
    /\ last = NoLast
    /\ err = "none"
    /\ run = 1
    /\ prev = NoPrev

Next == MainMinhash \/ MainLsh \/ VerifyEnter \/ VerifyIter \/ VerifyReturn \/ Rerun

Spec == Init /\ [][Next]_vars

(***************************************************************************)
(* Vocabulary of the properties: the sets behind the CSR rows, lines read  *)
(* back from the file, buckets by their definition.                         *)
(***************************************************************************)
InRange(u) == 0 <= u /\ u < R.shape[1]

\* The active columns of row u, read off the CSR arrays as a set.
RowSet(u) == {R.indices[k] : k \in R.indptr[u]..(R.indptr[u + 1] - 1)}

DigitVal(c) == CASE c = "0" -> 0 [] c = "1" -> 1 [] c = "2" -> 2 [] c = "3" -> 3
                 [] c = "4" -> 4 [] c = "5" -> 5 [] c = "6" -> 6 [] c = "7" -> 7
                 [] c = "8" -> 8 [] c = "9" -> 9 [] OTHER -> -1

RECURSIVE ParseNat(_, _)
ParseNat(cs, acc) ==
    IF cs = <<>> THEN acc ELSE ParseNat(Tail(cs), 10 * acc + DigitVal(Head(cs)))

ParseInt(cs) == IF cs # <<>> /\ Head(cs) = "-" THEN -ParseNat(Tail(cs), 0)
                ELSE ParseNat(cs, 0)

\* A line "uid1,uid2\n" of decimal integers.
IsLine(line) ==
    /\ Len(line) >= 4
    /\ line[Len(line)] = "\n"
    /\ Cardinality({k \in 1..Len(line) : line[k] = ","}) = 1
    /\ \A k \in 1..(Len(line) - 1) :
          line[k] = "," \/ line[k] = "-" \/ DigitVal(line[k]) >= 0

ParseLine(line) ==
    LET c == CHOOSE k \in 1..Len(line) : line[k] = ","
    IN <<ParseInt(SubSeq(line, 1, c - 1)), ParseInt(SubSeq(line, c + 1, Len(line) - 1))>>

\* The lines this run appended to the output file.
Appended == SubSeq(out, Len(out0) + 1, Len(out))

LexLess(x, y) == x[1] < y[1] \/ (x[1] = y[1] /\ x[2] < y[2])

\* The loop body of verify_candidates_and_write has just handled a pair.
BodyStep == pc = "verify_loop" /\ (idx' = idx + 1 \/ pc' = "error")

\* Bands and buckets of the signature matrix, by their definition.
NumBands == signatures.shape[2] \div args.rows_per_band

SubSig(u, b) ==
    [k \in 1..args.rows_per_band |-> signatures.data[u][b * args.rows_per_band + k - 1]]

BucketOf(u, b) == {v \in 0..(signatures.shape[1] - 1) : SubSig(v, b) = SubSig(u, b)}

InBound(n) == 2 <= n /\ n <= args.max_bucket_size

(***************************************************************************)
(* C1.  For a candidate pair of distinct in-range rows (whose column lists  *)
(* are strictly increasing, as every matrix here has them) with a non-empty *)
(* union, the value jaccard_similarity_csr computes is |S1 n S2| / |S1 u S2| *)
(* and verify_candidates_and_write appends one line for the pair exactly    *)
(* when that ratio is >= threshold; otherwise the file is left as it was.   *)
(***************************************************************************)
C1_ExactJaccardDecides ==
    [][ (BodyStep /\ last'.u1 # last'.u2 /\ InRange(last'.u1) /\ InRange(last'.u2)
           /\ RowSet(last'.u1) \cup RowSet(last'.u2) # {})
        => LET S1 == RowSet(last'.u1)
               S2 == RowSet(last'.u2)
               inter == Cardinality(S1 \cap S2)
               uni == Cardinality(S1 \cup S2)
           IN /\ pc' = "verify_loop"
              /\ last'.jacc[1] * uni = inter * last'.jacc[2]
              /\ IF inter * args.threshold[2] >= args.threshold[1] * uni
                 THEN /\ Len(out') = Len(out) + 1
                      /\ SubSeq(out', 1, Len(out)) = out
                      /\ IsLine(out'[Len(out')])
                      /\ ParseLine(out'[Len(out')])
                           \in {<<last'.u1 + 1, last'.u2 + 1>>, <<last'.u2 + 1, last'.u1 + 1>>}
                 ELSE out' = out ]_vars

\* Rows with Jaccard 1/3 handled under threshold 0.3: the pair is written.
C1_Witness ==
    /\ pc = "verify_loop"
    /\ last.valid /\ last.u1 # last.u2 /\ InRange(last.u1) /\ InRange(last.u2)
    /\ Cardinality(RowSet(last.u1) \cap RowSet(last.u2)) = 1
    /\ Cardinality(RowSet(last.u1) \cup RowSet(last.u2)) = 3
    /\ args.threshold = <<3, 10>>
    /\ Len(out) = Len(out0) + 1

(***************************************************************************)
(* C2.  lsh_candidate_pairs is complete for in-bound buckets: when it        *)
(* returns, for every band b and every two distinct rows whose              *)
(* sub-signatures in b are equal, if between 2 and max_bucket_size rows      *)
(* share that sub-signature then (min, max) of the two rows is a candidate. *)
(***************************************************************************)
C2_LshComplete ==
    pc = "done" =>
        \A b \in 0..(NumBands - 1) :
            \A u1 \in 0..(signatures.shape[1] - 1), u2 \in 0..(signatures.shape[1] - 1) :
                (u1 < u2 /\ SubSig(u1, b) = SubSig(u2, b)
                    /\ InBound(Cardinality(BucketOf(u1, b))))
                => <<u1, u2>> \in candidates

\* A pair that two bands produce, from buckets of exactly max_bucket_size rows.
C2_Witness ==
    /\ pc = "done"
    /\ NumBands = 2
    /\ \E pr \in candidates :
          /\ \A b \in {0, 1} : SubSig(pr[1], b) = SubSig(pr[2], b)
          /\ Cardinality(BucketOf(pr[1], 0)) = args.max_bucket_size

(***************************************************************************)
(* C3 as stated.  For any bucket with more than max_bucket_size members,     *)
(* no pair of its members is in the returned candidate set; and every pair  *)
(* in the returned set shares at least one bucket.                          *)
(***************************************************************************)
C3_AsStated ==
    pc = "done" =>
        /\ \A b \in 0..(NumBands - 1) : \A u \in 0..(signatures.shape[1] - 1) :
              Cardinality(BucketOf(u, b)) > args.max_bucket_size
              => \A v \in BucketOf(u, b), w \in BucketOf(u, b) : <<v, w>> \notin candidates
        /\ \A pr \in candidates :
              \E b \in 0..(NumBands - 1) : SubSig(pr[1], b) = SubSig(pr[2], b)

(***************************************************************************)
(* C3 amended.  Every pair in the returned set shares, in some band, a       *)
(* bucket of at most max_bucket_size members; so a pair of members of an    *)
(* oversized bucket is a candidate only through such a bucket of another    *)
(* band, and never when all buckets the two rows share are oversized (as    *)
(* when the members are pairwise identical).                                *)
(***************************************************************************)
C3_CutoffPerBucket ==
    pc = "done" =>
        /\ \A pr \in candidates :
              \E b \in 0..(NumBands - 1) :
                  /\ SubSig(pr[1], b) = SubSig(pr[2], b)
                  /\ InBound(Cardinality(BucketOf(pr[1], b)))
        /\ \A u1 \in 0..(signatures.shape[1] - 1), u2 \in 0..(signatures.shape[1] - 1) :
              (\A b \in 0..(NumBands - 1) :
                  SubSig(u1, b) = SubSig(u2, b)
                  => Cardinality(BucketOf(u1, b)) > args.max_bucket_size)
              => <<u1, u2>> \notin candidates

\* All rows identical in every band and more of them than max_bucket_size:
\* nothing is emitted.
C3_Witness ==
    /\ pc = "done"
    /\ NumBands = 2
    /\ \A b \in {0, 1} : Cardinality(BucketOf(0, b)) = signatures.shape[1]
    /\ signatures.shape[1] > args.max_bucket_size
    /\ candidates = {}

(***************************************************************************)
(* C4.  compute_minhash_signatures returns an n_rows x num_hashes matrix;    *)
(* for a row with active columns, entry i is the minimum over those columns *)
(* m of (a_i * m + b_i) mod p, with a_i in [1, p-1] and b_i in [0, p-1]; for *)
(* a row without active columns every entry is one sentinel greater than p. *)
(***************************************************************************)
C4_SignatureIsMinHash ==
    signatures.computed =>
        LET hf == generate_hash_functions(args.num_hashes, args.seed)
            hashes(u, i) == {(hf.a[i] * m + hf.b[i]) % p : m \in RowSet(u)}
        IN /\ signatures.shape = <<R.shape[1], args.num_hashes>>
           /\ DOMAIN signatures.data = 0..(R.shape[1] - 1)
           /\ \A i \in 0..(args.num_hashes - 1) :
                 /\ 1 <= hf.a[i] /\ hf.a[i] <= p - 1
                 /\ 0 <= hf.b[i] /\ hf.b[i] <= p - 1
           /\ \A u \in 0..(R.shape[1] - 1) :
                 /\ DOMAIN signatures.data[u] = 0..(args.num_hashes - 1)
                 /\ \A i \in 0..(args.num_hashes - 1) :
                       IF RowSet(u) # {}
                       THEN /\ signatures.data[u][i] \in hashes(u, i)
                            /\ \A v \in hashes(u, i) : signatures.data[u][i] <= v
                       ELSE /\ signatures.data[u][i] > p
                            /\ signatures.data[u][i] = signatures.data[u][0]

\* A matrix with an empty row and a row whose minimum is not the hash of its
\* first column.
C4_Witness ==
    /\ signatures.computed
    /\ args.num_hashes = MaxHashes
    /\ \E u \in 0..(R.shape[1] - 1) : RowSet(u) = {}
    /\ \E u \in 0..(R.shape[1] - 1), i \in 0..(args.num_hashes - 1) :
          LET hf == generate_hash_functions(args.num_hashes, args.seed)
          IN /\ Cardinality(RowSet(u)) >= 2
             /\ signatures.data[u][i] < (hf.a[i] * R.indices[R.indptr[u]] + hf.b[i]) % p

(***************************************************************************)
(* C5.  Every pair lsh_candidate_pairs returns satisfies                     *)
(* 0 <= u1 < u2 < n_rows, and every line verify_candidates_and_write         *)
(* appends for that set reads uid1,uid2 with uid1 = u1 + 1, uid2 = u2 + 1    *)
(* for a candidate (u1, u2), so uid1 < uid2; the line appended last is that  *)
(* of the pair handled last.                                                *)
(***************************************************************************)
C5_PairsNormalised ==
    /\ \A pr \in candidates : 0 <= pr[1] /\ pr[1] < pr[2] /\ pr[2] < R.shape[1]
    /\ \A k \in 1..Len(Appended) :
          /\ IsLine(Appended[k])
          /\ LET uids == ParseLine(Appended[k])
             IN /\ uids[1] < uids[2]
                /\ <<uids[1] - 1, uids[2] - 1>> \in candidates
    /\ (last.valid /\ last.wrote) =>
          ParseLine(out[Len(out)]) = <<last.u1 + 1, last.u2 + 1>>

\* A finished run that wrote lines for two candidates.
C5_Witness ==
    /\ pc = "done"
    /\ Cardinality(candidates) >= 2
    /\ Len(Appended) >= 2

(***************************************************************************)
(* C6 as stated.  A candidate pair of two distinct rows with identical       *)
(* active-column sets, two empty rows included, evaluates to 1.0 and is     *)
(* written for every threshold <= 1.0.                                      *)
(***************************************************************************)
C6_IdenticalSetsWritten ==
    (/\ last.valid /\ last.u1 # last.u2 /\ InRange(last.u1) /\ InRange(last.u2)
     /\ RowSet(last.u1) = RowSet(last.u2))
    => /\ last.raised = "none"
       /\ last.jacc[1] = last.jacc[2]
       /\ RatGeq(<<1, 1>>, args.threshold)
            => /\ Len(out) > Len(out0)
               /\ ParseLine(out[Len(out)])
                    \in {<<last.u1 + 1, last.u2 + 1>>, <<last.u2 + 1, last.u1 + 1>>}

(***************************************************************************)
(* C6 amended.  For a candidate pair of two distinct rows with identical,    *)
(* non-empty active-column sets, jaccard_similarity_csr returns 1.0 and the *)
(* pair is written for every threshold <= 1.0.  An empty row evaluates to   *)
(* 0.0 against any other row, another empty row included: such a pair is    *)
(* written only for a threshold <= 0.                                       *)
(***************************************************************************)
C6_IdenticalNonEmptyWritten ==
    [][ (BodyStep /\ last'.u1 # last'.u2 /\ InRange(last'.u1) /\ InRange(last'.u2)
           /\ (RowSet(last'.u1) = RowSet(last'.u2)
                 \/ RowSet(last'.u1) = {} \/ RowSet(last'.u2) = {}))
        => /\ pc' = "verify_loop"
           /\ IF RowSet(last'.u1) # {} /\ RowSet(last'.u2) # {}
              THEN /\ last'.jacc[1] = last'.jacc[2]
                   /\ RatGeq(<<1, 1>>, args.threshold)
                        => /\ Len(out') = Len(out) + 1
                           /\ SubSeq(out', 1, Len(out)) = out
                           /\ ParseLine(out'[Len(out')])
                                \in {<<last'.u1 + 1, last'.u2 + 1>>,
                                     <<last'.u2 + 1, last'.u1 + 1>>}
              ELSE /\ last'.jacc[1] = 0
                   /\ ~RatGeq(<<0, 1>>, args.threshold) => out' = out ]_vars

\* Two distinct rows with the same non-empty set, handled at threshold 1.0.
C6_Witness ==
    /\ pc = "verify_loop"
    /\ last.valid /\ last.u1 # last.u2 /\ InRange(last.u1) /\ InRange(last.u2)
    /\ RowSet(last.u1) = RowSet(last.u2)
    /\ Cardinality(RowSet(last.u1)) >= 2
    /\ args.threshold = <<1, 1>>
    /\ Len(out) = Len(out0) + 1
    /\ ParseLine(out[Len(out)]) \in {<<last.u1 + 1, last.u2 + 1>>, <<last.u2 + 1, last.u1 + 1>>}

(***************************************************************************)
(* C7 as stated.  The lines one pipeline run appends to the output file are  *)
(* in ascending order by (uid1, uid2), whatever order the candidate set is  *)
(* iterated in.                                                             *)
(***************************************************************************)
C7_OutputAscending ==
    \A j \in 1..Len(Appended), k \in 1..Len(Appended) :
        j < k => LexLess(ParseLine(Appended[j]), ParseLine(Appended[k]))

BadConfiguration ==
    \/ args.rows_per_band <= 0
    \/ args.rows_per_band > args.num_hashes
    \/ args.num_hashes <= 0
    \/ ~RatGeq(args.threshold, <<0, 1>>)
    \/ ~RatGeq(<<1, 1>>, args.threshold)

C9_ConfigErrorsFatalFirst ==
    BadConfiguration =>
        /\ pc # "done"
        /\ pc = "error" => ~(signatures.computed
                               /\ signatures.shape[1] * signatures.shape[2] > 0)
        /\ candidates = {}
        /\ out = out0

(***************************************************************************)
(* C10 as stated.  A pair with an index outside 0..n_rows-1 makes            *)
(* verify_candidates_and_write fail: the index is never taken for another   *)
(* row or an empty row, and no line is written for the pair.                *)
(***************************************************************************)
C10_OutOfRangeFatal ==
    (last.valid /\ (~InRange(last.u1) \/ ~InRange(last.u2)))
    => /\ last.raised # "none"
       /\ pc = "error"
       /\ ~last.wrote

(***************************************************************************)
(* C11.  Sink side effects of verify_candidates_and_write.  At every step   *)
(* of the call the incidence matrix and the candidate collection stay as    *)
(* they were, and the file content before the step is a prefix of the       *)
(* content after it, so that the content before the call stays an unchanged *)
(* prefix.  A pass of the loop whose Jaccard value is >= threshold appends   *)
(* exactly one line, the one of its pair, and adds one to num_written; a     *)
(* pass with a smaller value, a pass that raises, and every step that is no *)
(* pass of the loop append nothing.  When the call returns, num_written is   *)
(* the number of lines appended.  All of this holds with                     *)
(* close_each_write = True and with close_each_write = False, and the call  *)
(* repeated with the other value on the same matrix, collection, threshold  *)
(* and file content ends the same way with the same appended lines.         *)
(***************************************************************************)
C11_SinkEffects ==
    [][ (pc \in {"call_verify", "verify_loop"})
        => /\ R' = R
           /\ candidates' = candidates
           /\ Len(out') >= Len(out)
           /\ SubSeq(out', 1, Len(out)) = out
           /\ SubSeq(out', 1, Len(out0)) = out0
           /\ IF BodyStep /\ pc' # "error"
              THEN IF RatGeq(last'.jacc, args.threshold)
                   THEN /\ Len(out') = Len(out) + 1
                        /\ IsLine(out'[Len(out')])
                        /\ ParseLine(out'[Len(out')])
                             = IF last'.u1 <= last'.u2
                               THEN <<last'.u1 + 1, last'.u2 + 1>>
                               ELSE <<last'.u2 + 1, last'.u1 + 1>>
                        /\ num_written' = num_written + 1
                   ELSE /\ out' = out
                        /\ num_written' = num_written
              ELSE /\ out' = out
                   /\ num_written' = num_written
           /\ pc' = "done" => num_written' = Len(out') - Len(out0)
           /\ (run' = 2 /\ pc' \in {"done", "error"})
                => /\ pc' = prev'.pc
                   /\ out' = prev'.out ]_vars

\* The second call, made with close_each_write = False on a file that held a
\* line, has returned after accepting one pair and rejecting another.
C11_Witness ==
    /\ run = 2
    /\ pc = "done"
    /\ ~args.close_each_write
    /\ f = "closed"
    /\ out0 # <<>>
    /\ idx = 2
    /\ num_written = 1
    /\ Len(out) = Len(out0) + 1
    /\ out = prev.out

====
